---------------------------- MODULE Spec2Model ----------------------------
(***************************************************************************)
(* Live-Specgram, run_specgram.py: the acquisition / transform / scrolling *)
(* buffer pipeline and the life cycle of the audio stream in main().       *)
(*                                                                         *)
(* A 2D array is a record [rows, cols]: rows is shape[0] and cols is the   *)
(* sequence of its columns (shape[1] = Len(cols)).  A spectrogram column   *)
(* is the pair <<chunk, seg>>: the magnitudes of FFT segment seg of the    *)
(* chunk-th read made on the stream.                                       *)
(***************************************************************************)
EXTENDS Integers, Sequences, FiniteSets, TLC

VARIABLES
    pc,        \* position of main(): open_mic, make_plot, show, finally, exit
    stream,    \* pyaudio.Stream: none, open, stopped, closed
    pa,        \* PyAudio instance: none, live, terminated
    exc,       \* exception propagating out of main's try body ("none" if none)
    reads,     \* number of reads made on the stream (index of the last chunk)
    im,        \* the array held by the AxesImage (im.get_array())
    frameArg,  \* the `frame` argument of the last update_fig call
    calls,     \* number of update_fig calls made by the animation
    outcome,   \* how the last acquisition cycle ended
    pushed,    \* history: the frames folded into the image, in order
    rendered   \* history: shape <<rows, columns>> of every image handed over

vars == <<pc, stream, pa, exc, reads, im, frameArg, calls, outcome, pushed, rendered>>

----------------------------------------------------------------------------
(* Program constants *)

SAMPLES_PER_FRAME == 2

N_FFT == 1024

OVERLAP == 1000

(* Bounds of the model *)

MaxSegs == 3        \* a read yields at most this many spectrogram columns

MaxCalls == 4       \* update_fig calls explored after make_plot

MaxFrameArg == 2    \* the trigger's iteration number ranges over 0..MaxFrameArg

----------------------------------------------------------------------------
(* Helpers *)

Hop == N_FFT - OVERLAP

Min(a, b) == IF a < b THEN a ELSE b

\* a[:, k:]
SliceFrom(a, k) == [rows |-> a.rows, cols |-> SubSeq(a.cols, k + 1, Len(a.cols))]

\* np.hstack((a, b))
hstack(a, b) == [rows |-> a.rows, cols |-> a.cols \o b.cols]

\* lengths of the sample buffer a read can return: whole multiples of the hop
\* past N_FFT, the same plus a partial hop, and one short buffer
SignalLengths ==
    {N_FFT + (c - 1) * Hop + r : c \in 1..MaxSegs, r \in {0, Hop - 1}} \cup {N_FFT - Hop}

\* mic_read.get_data: one blocking read; either the samples of the next chunk
\* or a CaptureOverrun failure
get_data(n) ==
    {[ok |-> TRUE, chunk |-> n, len |-> l] : l \in SignalLengths}
        \cup {[ok |-> FALSE, chunk |-> n, len |-> 0]}

get_sample(n) == get_data(n)

\* number of columns mlab.specgram yields: the signal is zero-padded to NFFT
\* when shorter, then one column per full segment of stride NFFT - noverlap
NumSegments(len) ==
    LET padded == IF len < N_FFT THEN N_FFT ELSE len
    IN  (padded - OVERLAP) \div (N_FFT - OVERLAP)

get_specgram(data) ==
    [rows |-> N_FFT \div 2 + 1,
     cols |-> [j \in 1..NumSegments(data.len) |-> <<data.chunk, j>>]]

\* len(times)
TimesLen(arr_2d) == Len(arr_2d.cols)

----------------------------------------------------------------------------
(* update_fig, lines 66-80: fold a new frame into the image array *)

\* fill branch compared with <= instead of <
push_fill_le(frame, im_data, arr_2d) ==
    LET held == Len(im_data.cols) \div TimesLen(arr_2d)
    IN  IF held <= SAMPLES_PER_FRAME
        THEN hstack(im_data, arr_2d)
        ELSE hstack(SliceFrom(im_data, TimesLen(arr_2d)), arr_2d)

\* the shift drops a single column instead of len(times) columns
push_slice_one(frame, im_data, arr_2d) ==
    LET held == Len(im_data.cols) \div TimesLen(arr_2d)
    IN  IF held < SAMPLES_PER_FRAME
        THEN hstack(im_data, arr_2d)
        ELSE hstack(SliceFrom(im_data, 1), arr_2d)

\* hstack with its operands swapped: the new frame lands on the left
push_swapped(frame, im_data, arr_2d) ==
    LET held == Len(im_data.cols) \div TimesLen(arr_2d)
    IN  IF held < SAMPLES_PER_FRAME
        THEN hstack(arr_2d, im_data)
        ELSE hstack(arr_2d, SliceFrom(im_data, TimesLen(arr_2d)))

\* the iteration number of the trigger is trusted
push_trust_frame(frame, im_data, arr_2d) ==
    IF frame < SAMPLES_PER_FRAME
    THEN hstack(im_data, arr_2d)
    ELSE hstack(SliceFrom(im_data, TimesLen(arr_2d)), arr_2d)

\* the image always scrolls and never fills up
push_always_shift(frame, im_data, arr_2d) ==
    hstack(SliceFrom(im_data, TimesLen(arr_2d)), arr_2d)

\* `frame` is the argument update_fig receives; line 70 overwrites it with the
\* number of frames held, derived from the width of the image
push(frame, im_data, arr_2d) ==
    LET held == Len(im_data.cols) \div TimesLen(arr_2d)
    IN  IF held < SAMPLES_PER_FRAME
        THEN hstack(im_data, arr_2d)
        ELSE hstack(SliceFrom(im_data, TimesLen(arr_2d)), arr_2d)

Shape(a) == <<a.rows, Len(a.cols)>>

----------------------------------------------------------------------------
(* State machine *)

NoImage == [rows |-> 0, cols |-> <<>>]

Init ==
    /\ pc = "open_mic"
    /\ stream = "none"
    /\ pa = "none"
    /\ exc = "none"
    /\ reads = 0
    /\ im = NoImage
    /\ frameArg = 0
    /\ calls = 0
    /\ outcome = "none"
    /\ pushed = <<>>
    /\ rendered = <<>>

\* main, line 115: open_mic() runs before the try block
open_mic ==
    /\ pc = "open_mic"
    /\ \/ /\ stream' = "open"
          /\ pa' = "live"
          /\ pc' = "make_plot"
          /\ exc' = exc
       \/ /\ exc' = "DeviceUnavailable"
          /\ pc' = "exit"
          /\ UNCHANGED <<stream, pa>>
    /\ UNCHANGED <<reads, im, frameArg, calls, outcome, pushed, rendered>>

\* make_plot: the first frame is read, transformed and given to imshow
make_plot ==
    /\ pc = "make_plot"
    /\ reads' = reads + 1
    /\ \E data \in get_sample(reads + 1) :
         IF data.ok
         THEN LET arr_2d == get_specgram(data)
              IN  /\ im' = arr_2d
                  /\ pushed' = Append(pushed, arr_2d)
                  /\ rendered' = Append(rendered, Shape(arr_2d))
                  /\ outcome' = "ok"
                  /\ pc' = "show"
                  /\ exc' = exc
         ELSE /\ outcome' = "CaptureOverrun"
              /\ exc' = "CaptureOverrun"
              /\ pc' = "finally"
              /\ UNCHANGED <<im, pushed, rendered>>
    /\ UNCHANGED <<stream, pa, frameArg, calls>>

\* update_fig with the image sliced in place before the read
update_fig_slice_first ==
    /\ pc = "show"
    /\ calls < MaxCalls
    /\ calls' = calls + 1
    /\ reads' = reads + 1
    /\ \E frame \in 0..MaxFrameArg, data \in get_sample(reads + 1) :
         /\ frameArg' = frame
         /\ IF data.ok
            THEN LET arr_2d == get_specgram(data)
                     im_data == push(frame, im, arr_2d)
                 IN  /\ im' = im_data
                     /\ pushed' = Append(pushed, arr_2d)
                     /\ rendered' = Append(rendered, Shape(im_data))
                     /\ outcome' = "ok"
                     /\ UNCHANGED <<pc, exc>>
            ELSE /\ outcome' = "CaptureOverrun"
                 /\ im' = SliceFrom(im, 1)
                 /\ UNCHANGED <<pushed, rendered>>
                 /\ \/ /\ exc' = "CaptureOverrun"
                       /\ pc' = "finally"
                    \/ UNCHANGED <<pc, exc>>
    /\ UNCHANGED <<stream, pa>>

\* one firing of the animation's timer during plt.show(): update_fig(frame, im,
\* stream).  An exception of the callback either propagates out of plt.show()
\* or is reported by the event loop, which keeps running (backend dependent).
update_fig ==
    /\ pc = "show"
    /\ calls < MaxCalls
    /\ calls' = calls + 1
    /\ reads' = reads + 1
    /\ \E frame \in 0..MaxFrameArg, data \in get_sample(reads + 1) :
         /\ frameArg' = frame
         /\ IF data.ok
            THEN LET arr_2d == get_specgram(data)
                     im_data == push(frame, im, arr_2d)
                 IN  /\ im' = im_data
                     /\ pushed' = Append(pushed, arr_2d)
                     /\ rendered' = Append(rendered, Shape(im_data))
                     /\ outcome' = "ok"
                     /\ UNCHANGED <<pc, exc>>
            ELSE /\ outcome' = "CaptureOverrun"
                 /\ UNCHANGED <<im, pushed, rendered>>
                 /\ \/ /\ exc' = "CaptureOverrun"
                       /\ pc' = "finally"
                    \/ UNCHANGED <<pc, exc>>
    /\ UNCHANGED <<stream, pa>>

\* the user closes the window: plt.show() returns
close_window ==
    /\ pc = "show"
    /\ pc' = "finally"
    /\ UNCHANGED <<stream, pa, exc, reads, im, frameArg, calls, outcome, pushed, rendered>>

\* the finally block that forgets stream.close()
main_finally_no_close ==
    /\ pc = "finally"
    /\ stream' = "stopped"
    /\ pa' = "terminated"
    /\ pc' = "exit"
    /\ UNCHANGED <<exc, reads, im, frameArg, calls, outcome, pushed, rendered>>

\* main, lines 120-123: stop_stream, close, terminate
main_finally ==
    /\ pc = "finally"
    /\ stream' = "closed"
    /\ pa' = "terminated"
    /\ pc' = "exit"
    /\ UNCHANGED <<exc, reads, im, frameArg, calls, outcome, pushed, rendered>>

Next ==
    \/ open_mic
    \/ make_plot
    \/ update_fig
    \/ close_window
    \/ main_finally

Spec == Init /\ [][Next]_vars

----------------------------------------------------------------------------
(* Vocabulary of the properties *)

Pushes == Len(pushed)

Width(f) == Len(f.cols)

\* every frame pushed so far has the column count of the first one
Uniform == \A i \in DOMAIN pushed : Width(pushed[i]) = Width(pushed[1])

NewCols == Width(pushed[1])

W_max == SAMPLES_PER_FRAME * NewCols

Rows == N_FFT \div 2 + 1

RECURSIVE ConcatCols(_)
ConcatCols(frames) ==
    IF frames = <<>> THEN <<>>
    ELSE frames[1].cols \o ConcatCols(Tail(frames))

RECURSIVE TotalCols(_)
TotalCols(frames) ==
    IF frames = <<>> THEN 0
    ELSE Width(frames[1]) + TotalCols(Tail(frames))

\* the last n elements of a sequence
LastN(s, n) == SubSeq(s, Len(s) - n + 1, Len(s))

\* the image a run reaches on the frame sequence `frames` when every
\* update_fig call is handed the iteration number a
RECURSIVE ReplayWith(_, _)
ReplayWith(a, frames) ==
    IF Len(frames) = 1 THEN frames[1]
    ELSE push(a, ReplayWith(a, SubSeq(frames, 1, Len(frames) - 1)), frames[Len(frames)])

----------------------------------------------------------------------------
(* Properties *)

\* C1: with frames of one column count newCols, after k pushes the image has
\* min(k, SAMPLES_PER_FRAME) * newCols columns (and none before the first push)
C1_ColumnCount ==
    /\ Pushes = 0 => Len(im.cols) = 0
    /\ (Pushes >= 1 /\ Uniform) =>
          Len(im.cols) = Min(Pushes, SAMPLES_PER_FRAME) * NewCols

C1_Witness ==
    /\ Uniform
    /\ Pushes >= SAMPLES_PER_FRAME + 2
    /\ NewCols >= 2
    /\ Len(im.cols) = W_max

\* C2: with frames of one column count, the image is the concatenation, in
\* arrival order, of the last min(k, SAMPLES_PER_FRAME) frames pushed; when
\* every read was pushed these are the frames of the last chunks read
C2_NoSkipNoDuplicate ==
    (Pushes >= 1 /\ Uniform) =>
        LET m == Min(Pushes, SAMPLES_PER_FRAME)
        IN  /\ im.cols = ConcatCols(LastN(pushed, m))
            /\ reads = Pushes =>
                 im.cols = ConcatCols([i \in 1..m |->
                              [rows |-> Rows,
                               cols |-> [j \in 1..NewCols |-> <<reads - m + i, j>>]]])

C2_Witness ==
    /\ Uniform
    /\ reads = Pushes
    /\ Pushes >= SAMPLES_PER_FRAME + 2
    /\ NewCols >= 2
    /\ outcome = "ok"

\* C3: after any push the rightmost columns of the image are the columns of
\* the frame pushed last, whatever the widths of the earlier frames
C3_NewestFrameKept ==
    Pushes >= 1 =>
        LET f == pushed[Pushes]
        IN  /\ Len(im.cols) >= Width(f)
            /\ LastN(im.cols, Width(f)) = f.cols

C3_Witness ==
    /\ ~Uniform
    /\ Pushes >= SAMPLES_PER_FRAME + 1
    /\ Width(pushed[Pushes]) >= 2
    /\ Len(im.cols) < TotalCols(pushed)
    /\ Len(im.cols) > Width(pushed[Pushes])

\* C4: when main has ended after the device was opened, the stream is closed
\* and PyAudio terminated; an open stream is only seen inside the try block
C4_StreamReleased ==
    /\ pc = "exit" =>
         \/ exc = "DeviceUnavailable" /\ stream = "none" /\ pa = "none"
         \/ stream = "closed" /\ pa = "terminated"
    /\ stream = "open" => pc \in {"make_plot", "show", "finally"}

C4_Witness ==
    /\ pc = "exit"
    /\ exc = "CaptureOverrun"
    /\ calls >= 1
    /\ stream = "closed"
    /\ pa = "terminated"

\* C5: after a cycle whose read overran, the pipeline is still running
C5_OverrunRecovered ==
    outcome = "CaptureOverrun" => (pc = "show" /\ exc = "none")

\* C6: no image is built from frames of different widths
C6_NoMixedWidths == Uniform

\* C7 as stated: every image handed to the renderer has W_max columns
C7_AlwaysFullWidth ==
    (Pushes >= 1 /\ Uniform) =>
        \A i \in DOMAIN rendered : rendered[i] = <<Rows, W_max>>

\* C7: one image is handed over per push; each has the fixed row count and,
\* with frames of one column count, the i-th has min(i, SAMPLES_PER_FRAME) *
\* newCols columns: at most W_max, and W_max from the SAMPLES_PER_FRAME-th on
C7_HandedImageShape ==
    /\ Len(rendered) = Pushes
    /\ \A i \in DOMAIN rendered : rendered[i][1] = Rows
    /\ (Pushes >= 1 /\ Uniform) =>
          \A i \in DOMAIN rendered :
              /\ rendered[i][2] = Min(i, SAMPLES_PER_FRAME) * NewCols
              /\ rendered[i][2] <= W_max
              /\ (i >= SAMPLES_PER_FRAME) => rendered[i][2] = W_max

C7_Witness ==
    /\ Len(rendered) >= SAMPLES_PER_FRAME + 1
    /\ Uniform
    /\ NewCols >= 2
    /\ rendered[1][2] < W_max
    /\ rendered[Len(rendered)][2] = W_max

\* C8: the image depends on the frames alone: it is the image of the run that
\* receives the same frames with any constant iteration number
C8_CounterIgnored ==
    Pushes >= 1 => \A a \in 0..MaxFrameArg : im = ReplayWith(a, pushed)

C8_Witness ==
    /\ frameArg = 0
    /\ outcome = "ok"
    /\ Pushes >= SAMPLES_PER_FRAME + 2
    /\ Len(im.cols) < TotalCols(pushed)

\* C9: every update_fig call made one read and one push
C9_OneReadOnePushPerCall ==
    Pushes >= 1 => (reads = calls + 1 /\ Pushes = calls + 1)

\* C10: an update_fig call that fails leaves the image, and what the renderer
\* was handed, as they were
C10_FailedCycleKeepsImage ==
    [][(calls' = calls + 1 /\ outcome' # "ok") => (im' = im /\ rendered' = rendered)]_vars

C10_Witness ==
    /\ outcome = "CaptureOverrun"
    /\ calls >= 2
    /\ Pushes >= 2
    /\ Len(im.cols) >= 2

====
